---- MODULE Spec2Model ----
(***************************************************************************)
(* Model of the resilient HTTP client (client.py): make_resilient_call,    *)
(* run_test and main.  Durations are in tenths of a second, so the 0.3 s   *)
(* timeout is 3 and the 35 s timeout is 350.                               *)
(***************************************************************************)
EXTENDS Integers, Sequences, FiniteSets, TLC

VARIABLES
    mainPc,           \* position of main(): "none" when make_resilient_call is called directly
    num_calls,        \* main's / run_test's num_calls
    i,                \* run_test: number of loop iterations started
    all_stats,        \* run_test: all_stats of the run in progress
    aggressive_stats, \* main: result of the aggressive run
    patient_stats,    \* main: result of the patient run
    report,           \* main: the KEY DIFFERENCES values
    call_history,     \* history: the call_stats returned to run_test so far in this run
    callPc,           \* make_resilient_call: "idle", "loop", "returned", "raised"
    max_retries,      \* make_resilient_call parameter
    timeout_strategy, \* make_resilient_call parameter
    attempt,          \* loop variable: index of the next iteration
    stats,            \* make_resilient_call: stats
    result,           \* first component of the returned pair
    gets,             \* history: number of requests.get issued by this call
    log,              \* history: status code and scenario of every attempt of this call
    last              \* history: the most recent attempt of this call

vars == <<mainPc, num_calls, i, all_stats, aggressive_stats, patient_stats, report,
          call_history, callPc, max_retries, timeout_strategy, attempt, stats, result, gets, log, last>>

mainVars == <<mainPc, num_calls, i, all_stats, aggressive_stats, patient_stats, report,
             call_history>>

----------------------------------------------------------------------------
(* Bounds of the model *)

MaxRetries == 3      \* direct calls draw max_retries from -1..MaxRetries
MaxNumCalls == 1     \* main draws num_calls from 0..MaxNumCalls
MaxRunCalls == 2     \* a single run_test draws num_calls from -1..MaxRunCalls

(* Program constants *)

AggressiveTimeout == 3
PatientTimeout == 350
DefaultMaxRetries == 3

----------------------------------------------------------------------------
(* TimeoutStrategy and CallStats *)

AGGRESSIVE == "aggressive"
PATIENT == "patient"
TimeoutStrategy == {AGGRESSIVE, PATIENT}

CallStats(strategy) ==
    [total_calls |-> 0, total_errors |-> 0, total_success |-> 0, total_time |-> 0,
     response_times |-> <<>>, timeout_strategy |-> strategy]

\* a local of main that is not bound yet
Unbound == CallStats("unbound")

\* mutant: the strategy is ignored
TimeoutAlwaysAggressive(strategy) == AggressiveTimeout

\* timeout = 0.3 if timeout_strategy == AGGRESSIVE else 35.0
Timeout(strategy) == IF strategy = AGGRESSIVE THEN AggressiveTimeout ELSE PatientTimeout

----------------------------------------------------------------------------
(* The environment: what one requests.get(url, timeout=timeout) can do.    *)
(* A timing is <<connect wait, wait for the response>>; requests applies   *)
(* the timeout to each wait, not to their sum, and response.elapsed is the *)
(* time from sending the request to the arrival of the response.           *)

Timings == {<<1, 1>>, <<2, 2>>, <<1, 100>>, <<200, 200>>, <<1, 400>>}
StatusCodes == {200, 503, 500, 404}
Networks == {"up", "refused"}

RunTimings == {<<1, 1>>, <<1, 100>>}
RunStatusCodes == {200, 503, 500}
RunNetworks == {"up"}

\* whether the body decodes as JSON; the client reads the body of no 503 and of no 500
\* (they are classified before the body is read), and the server's error bodies are JSON
Bodies(status) == IF status \in {503, 500} THEN {TRUE} ELSE BOOLEAN

NoAttempt ==
    [kind |-> "none", status_code |-> 0, elapsed |-> 0, decodable |-> FALSE,
     scenario |-> "none", exc |-> "none", late |-> FALSE, timeout |-> 0]

HttpGet(net, timing, status, dec, timeout) ==
    IF net = "refused" THEN [raised |-> TRUE, exc |-> "ConnectionError"]
    ELSE IF timing[1] > timeout THEN [raised |-> TRUE, exc |-> "ConnectTimeout"]
    ELSE IF timing[2] > timeout THEN [raised |-> TRUE, exc |-> "ReadTimeout"]
    ELSE [raised |-> FALSE, exc |-> "none", status_code |-> status,
          elapsed |-> timing[1] + timing[2], decodable |-> dec]

\* the class an exception is an instance of
ExcClass(e) == IF e = "JSONDecodeError" THEN "ValueError" ELSE "RequestException"

----------------------------------------------------------------------------
(* make_resilient_call *)

\* mutant: the elapsed-time check made before the status checks
ClassifyElapsedFirst(status_code, elapsed, timeout) ==
    IF elapsed > timeout THEN "slow"
    ELSE IF status_code = 200 THEN "success"
    ELSE IF status_code = 503 THEN "intermittent_error"
    ELSE IF status_code = 500 THEN "error"
    ELSE "failure"

Classify(status_code, elapsed, timeout) ==
    IF status_code = 200 THEN "success"
    ELSE IF status_code = 503 THEN "intermittent_error"
    ELSE IF elapsed > timeout THEN "slow"
    ELSE IF status_code = 500 THEN "error"
    ELSE "failure"

\* mutant: the elapsed time is appended but not added to total_time
RecordAttemptNoTotalTime(st, elapsed_time) ==
    [st EXCEPT !.total_calls = @ + 1,
               !.response_times = Append(@, elapsed_time)]

\* stats.total_calls += 1; stats.response_times.append(elapsed_time); stats.total_time += elapsed_time
RecordAttempt(st, elapsed_time) ==
    [st EXCEPT !.total_calls = @ + 1,
               !.response_times = Append(@, elapsed_time),
               !.total_time = @ + elapsed_time]

\* mutant: a failed attempt is not counted
AddErrorForgotten(st) == st

\* stats.total_errors += 1
AddError(st) == [st EXCEPT !.total_errors = @ + 1]

\* stats.total_success += 1
AddSuccess(st) == [st EXCEPT !.total_success = @ + 1]

\* mutant: the retryable scenarios never reach the end of the loop body
RetryableNone(scenario) == FALSE

\* mutant: a server error is retried like an intermittent one
RetryableWithError(scenario) ==
    scenario = "intermittent_error" \/ scenario = "slow" \/ scenario = "error"

Retryable(scenario) == scenario = "intermittent_error" \/ scenario = "slow"

\* mutant: the handler catches requests.RequestException only
CaughtRequestOnly(e) == ExcClass(e) = "RequestException"

\* except (requests.RequestException, ValueError)
Caught(e) == ExcClass(e) \in {"RequestException", "ValueError"}

\* mutant: one iteration too many
LoopRunsOneMore(a, n) == a <= n

\* for attempt in range(max_retries)
LoopRuns(a, n) == a < n

\* mutant: the handler gives up on every failure
IsLastAlways(a, n) == TRUE

\* attempt == max_retries - 1
IsLast(a, n) == a = n - 1

\* mutant: the handler reports the generic message on the last attempt
OnExceptionGenericMessage(st, e, a, n) ==
    IF a = n - 1
    THEN [stats |-> [st EXCEPT !.total_errors = @ + 1], pc |-> "returned",
          result |-> "Max retries exceeded"]
    ELSE [stats |-> [st EXCEPT !.total_errors = @ + 1], pc |-> "loop", result |-> "none"]

\* an exception e raised inside the try block of iteration a, with the stats as they are then
OnException(st, e, a, n) ==
    IF ~Caught(e)
    THEN [stats |-> st, pc |-> "raised", result |-> e]
    ELSE IF IsLast(a, n)
         THEN [stats |-> AddError(st), pc |-> "returned", result |-> e]
         ELSE [stats |-> AddError(st), pc |-> "loop", result |-> "none"]

\* the body of the try block once requests.get has returned a response; at the
\* model's resolution elapsed_time (time.time() - start_time) is response.elapsed
OnResponse(st, resp, timeout, a, n) ==
    LET scenario == Classify(resp.status_code, resp.elapsed, timeout)
        st1 == RecordAttempt(st, resp.elapsed)
    IN  IF Retryable(scenario)
        THEN [stats |-> AddError(st1), pc |-> "loop", result |-> "none"]
        ELSE IF scenario = "error"
        THEN [stats |-> AddError(st1), pc |-> "returned", result |-> "Internal Server Error"]
        ELSE IF resp.decodable
        THEN [stats |-> AddSuccess(st1), pc |-> "returned", result |-> "body"]
        ELSE OnException(AddSuccess(st1), "JSONDecodeError", a, n)

\* one iteration of the for loop
Iteration(st, got, timeout, a, n) ==
    IF got.raised THEN OnException(st, got.exc, a, n)
    ELSE OnResponse(st, got, timeout, a, n)

\* what the history records of an attempt
AttemptRecord(got, timeout) ==
    IF got.raised
    THEN [NoAttempt EXCEPT !.kind = "exception", !.exc = got.exc, !.timeout = timeout]
    ELSE LET scenario == Classify(got.status_code, got.elapsed, timeout)
         IN [kind |-> "response", status_code |-> got.status_code, elapsed |-> got.elapsed,
             decodable |-> got.decodable, scenario |-> scenario,
             exc |-> IF ~Retryable(scenario) /\ scenario # "error" /\ ~got.decodable
                     THEN "JSONDecodeError" ELSE "none",
             late |-> got.elapsed > timeout, timeout |-> timeout]

Attempt(T, S, N) ==
    /\ callPc = "loop"
    /\ LoopRuns(attempt, max_retries)
    /\ \E net \in N, timing \in T, status \in S : \E dec \in Bodies(status) :
         LET timeout == Timeout(timeout_strategy)
             got == HttpGet(net, timing, status, dec, timeout)
             out == Iteration(stats, got, timeout, attempt, max_retries)
             rec == AttemptRecord(got, timeout)
         IN  /\ stats' = out.stats
             /\ callPc' = out.pc
             /\ result' = out.result
             /\ last' = rec
             /\ log' = Append(log, [status_code |-> rec.status_code, scenario |-> rec.scenario])
    /\ gets' = gets + 1
    /\ attempt' = attempt + 1
    /\ UNCHANGED <<mainVars, max_retries, timeout_strategy>>

\* return {"error": "Max retries exceeded"}, stats
LoopExit ==
    /\ callPc = "loop"
    /\ ~LoopRuns(attempt, max_retries)
    /\ callPc' = "returned"
    /\ result' = "Max retries exceeded"
    /\ UNCHANGED <<mainVars, max_retries, timeout_strategy, attempt, stats, gets, log, last>>

----------------------------------------------------------------------------
(* run_test and main *)

RECURSIVE SumSeq(_)
SumSeq(s) == IF s = <<>> THEN 0 ELSE Head(s) + SumSeq(Tail(s))

NoReport ==
    [total_time_diff |-> 0, success_rate_num |-> 0, success_rate_den |-> 1,
     average_time_num |-> 0, average_time_den |-> 1]

\* mutant: the new response times are put in front of the old ones
FoldPrepends(all, call_stats) ==
    [all EXCEPT !.total_calls = @ + call_stats.total_calls,
                !.total_errors = @ + call_stats.total_errors,
                !.total_success = @ + call_stats.total_success,
                !.total_time = @ + call_stats.total_time,
                !.response_times = call_stats.response_times \o @]

\* the lines of run_test that add call_stats to all_stats
Fold(all, call_stats) ==
    [all EXCEPT !.total_calls = @ + call_stats.total_calls,
                !.total_errors = @ + call_stats.total_errors,
                !.total_success = @ + call_stats.total_success,
                !.total_time = @ + call_stats.total_time,
                !.response_times = @ \o call_stats.response_times]

\* average_time as a fraction: mean(response_times) if response_times else 0.0
AverageNum(st) == IF st.response_times = <<>> THEN 0 ELSE SumSeq(st.response_times)
AverageDen(st) == IF st.response_times = <<>> THEN 1 ELSE Len(st.response_times)

\* total_success/total_calls raises ZeroDivisionError when total_calls is 0
RateDefined(st) == st.total_calls # 0

\* mutant: the total time difference is reported as a magnitude
KeyDifferencesAbsolute(p, a) ==
    [total_time_diff |-> IF p.total_time >= a.total_time THEN p.total_time - a.total_time
                         ELSE a.total_time - p.total_time,
     success_rate_num |-> p.total_success * a.total_calls - a.total_success * p.total_calls,
     success_rate_den |-> p.total_calls * a.total_calls,
     average_time_num |-> AverageNum(p) * AverageDen(a) - AverageNum(a) * AverageDen(p),
     average_time_den |-> AverageDen(p) * AverageDen(a)]

\* the KEY DIFFERENCES of main, the two rates and the two means as fractions
KeyDifferences(p, a) ==
    [total_time_diff |-> p.total_time - a.total_time,
     success_rate_num |-> p.total_success * a.total_calls - a.total_success * p.total_calls,
     success_rate_den |-> p.total_calls * a.total_calls,
     average_time_num |-> AverageNum(p) * AverageDen(a) - AverageNum(a) * AverageDen(p),
     average_time_den |-> AverageDen(p) * AverageDen(a)]

\* mutant: the loop stops one call early
RunLoopStopsEarly(k, n) == k < n - 1

\* for i in range(num_calls)
RunLoopRuns(k, n) == k < n

callVars == <<callPc, max_retries, timeout_strategy, attempt, stats, result, gets, log, last>>

\* run_test: an iteration of the loop calls make_resilient_call(url, timeout_strategy=...)
RunTestCall ==
    /\ mainPc \in TimeoutStrategy
    /\ callPc = "idle"
    /\ RunLoopRuns(i, num_calls)
    /\ i' = i + 1
    /\ callPc' = "loop"
    /\ max_retries' = DefaultMaxRetries
    /\ timeout_strategy' = mainPc
    /\ attempt' = 0
    /\ stats' = CallStats(mainPc)
    /\ result' = "none"
    /\ gets' = 0
    /\ log' = <<>>
    /\ last' = NoAttempt
    /\ UNCHANGED <<mainPc, num_calls, all_stats, aggressive_stats, patient_stats, report,
                   call_history>>

\* run_test: the call has returned and its stats are added to all_stats
RunTestFold ==
    /\ mainPc \in TimeoutStrategy
    /\ callPc = "returned"
    /\ all_stats' = Fold(all_stats, stats)
    /\ call_history' = Append(call_history, stats)
    /\ callPc' = "idle"
    \* the frame of the call is gone: its locals and its history are cleared
    /\ attempt' = 0
    /\ stats' = CallStats(mainPc)
    /\ result' = "none"
    /\ gets' = 0
    /\ log' = <<>>
    /\ last' = NoAttempt
    /\ UNCHANGED <<mainPc, num_calls, i, aggressive_stats, patient_stats, report,
                   max_retries, timeout_strategy>>

\* main: run_test(num_calls, AGGRESSIVE) returns and run_test(num_calls, PATIENT) starts
AggressiveRunReturns ==
    /\ mainPc = AGGRESSIVE
    /\ callPc = "idle"
    /\ ~RunLoopRuns(i, num_calls)
    /\ aggressive_stats' = all_stats
    /\ mainPc' = PATIENT
    /\ i' = 0
    /\ all_stats' = CallStats(PATIENT)
    /\ call_history' = <<>>
    /\ UNCHANGED <<num_calls, patient_stats, report, callVars>>

\* main: run_test(num_calls, PATIENT) returns
PatientRunReturns ==
    /\ mainPc = PATIENT
    /\ callPc = "idle"
    /\ ~RunLoopRuns(i, num_calls)
    /\ patient_stats' = all_stats
    /\ mainPc' = "report"
    /\ call_history' = <<>>
    /\ UNCHANGED <<num_calls, i, all_stats, aggressive_stats, report, callVars>>

\* main: the comparison and the key differences
Report ==
    /\ mainPc = "report"
    /\ IF RateDefined(patient_stats) /\ RateDefined(aggressive_stats)
       THEN /\ report' = KeyDifferences(patient_stats, aggressive_stats)
            /\ mainPc' = "done"
       ELSE \* the total time difference is logged before the rates are computed
            /\ report' = [report EXCEPT !.total_time_diff =
                              patient_stats.total_time - aggressive_stats.total_time]
            /\ mainPc' = "ZeroDivisionError"
    /\ UNCHANGED <<num_calls, i, all_stats, aggressive_stats, patient_stats, call_history,
                   callVars>>

MainInit ==
    /\ mainPc = AGGRESSIVE
    /\ num_calls \in 0..MaxNumCalls
    /\ i = 0
    /\ all_stats = CallStats(AGGRESSIVE)
    /\ aggressive_stats = Unbound
    /\ patient_stats = Unbound
    /\ report = NoReport
    /\ call_history = <<>>
    /\ callPc = "idle"
    /\ max_retries = DefaultMaxRetries
    /\ timeout_strategy = AGGRESSIVE
    /\ attempt = 0
    /\ stats = CallStats(AGGRESSIVE)
    /\ result = "none"
    /\ gets = 0
    /\ log = <<>>
    /\ last = NoAttempt

MainNext ==
    \/ RunTestCall
    \/ Attempt(RunTimings, RunStatusCodes, RunNetworks)
    \/ LoopExit
    \/ RunTestFold
    \/ AggressiveRunReturns
    \/ PatientRunReturns
    \/ Report

MainSpec == MainInit /\ [][MainNext]_vars

----------------------------------------------------------------------------
(* A single call run_test(num_calls, timeout_strategy) *)

\* return all_stats
RunTestReturns ==
    /\ mainPc \in TimeoutStrategy
    /\ callPc = "idle"
    /\ ~RunLoopRuns(i, num_calls)
    /\ mainPc' = "run_returned"
    /\ UNCHANGED <<num_calls, i, all_stats, aggressive_stats, patient_stats, report,
                   call_history, callVars>>

RunInit ==
    /\ mainPc \in TimeoutStrategy
    /\ num_calls \in (-1)..MaxRunCalls
    /\ i = 0
    /\ all_stats = CallStats(mainPc)
    /\ aggressive_stats = Unbound
    /\ patient_stats = Unbound
    /\ report = NoReport
    /\ call_history = <<>>
    /\ callPc = "idle"
    /\ max_retries = DefaultMaxRetries
    /\ timeout_strategy = mainPc
    /\ attempt = 0
    /\ stats = CallStats(mainPc)
    /\ result = "none"
    /\ gets = 0
    /\ log = <<>>
    /\ last = NoAttempt

RunNext ==
    \/ RunTestCall
    \/ Attempt(RunTimings, RunStatusCodes, RunNetworks)
    \/ LoopExit
    \/ RunTestFold
    \/ RunTestReturns

RunSpec == RunInit /\ [][RunNext]_vars

----------------------------------------------------------------------------
(* A single call make_resilient_call(url, max_retries, timeout_strategy) *)

Init ==
    /\ mainPc = "none"
    /\ num_calls = 0
    /\ i = 0
    /\ all_stats = Unbound
    /\ aggressive_stats = Unbound
    /\ patient_stats = Unbound
    /\ report = NoReport
    /\ call_history = <<>>
    /\ callPc = "loop"
    /\ max_retries \in (-1)..MaxRetries
    /\ timeout_strategy \in TimeoutStrategy
    /\ attempt = 0
    /\ stats = CallStats(timeout_strategy)
    /\ result = "none"
    /\ gets = 0
    /\ log = <<>>
    /\ last = NoAttempt

Next ==
    \/ Attempt(Timings, StatusCodes, Networks)
    \/ LoopExit

Spec == Init /\ [][Next]_vars

\* the interpreter runs the loop to its end
FairSpec == Spec /\ WF_vars(Next)

----------------------------------------------------------------------------
(* Both entry points, make_resilient_call and run_test, with every value of *)
(* their integer parameter, positive or not                                 *)

DirectAttempt == mainPc = "none" /\ Attempt(Timings, StatusCodes, Networks)

RunAttempt == mainPc \in TimeoutStrategy /\ Attempt(RunTimings, RunStatusCodes, RunNetworks)

EntryInit == Init \/ RunInit

EntryNext ==
    \/ DirectAttempt
    \/ RunAttempt
    \/ LoopExit
    \/ RunTestCall
    \/ RunTestFold
    \/ RunTestReturns

EntrySpec == EntryInit /\ [][EntryNext]_vars

----------------------------------------------------------------------------
(* Properties of make_resilient_call *)

\* the step just taken is an attempt of the call
Attempted == callPc = "loop" /\ gets' = gets + 1

AllBefore(k, P(_)) == \A j \in 1..(k - 1) : P(log[j])

Is503(e) == e.status_code = 503

IsRetried(e) == e.scenario \in {"intermittent_error", "slow"}

\* C1: with max_retries >= 1 a call issues at most max_retries HTTP GETs, and at
\* least one by the time it has returned, whatever the attempts' outcomes.
C1_AttemptsBounded ==
    max_retries >= 1 =>
        /\ gets <= max_retries
        /\ callPc \in {"returned", "raised"} => gets >= 1

C1_Witness ==
    /\ callPc = "returned" /\ max_retries = 3 /\ gets = 3
    /\ last.kind = "exception"

\* C2 as claimed: every response with status 500 ends the call at that attempt
\* with the 'Internal Server Error' result.
C2_Original ==
    (last.kind = "response" /\ last.status_code = 500) =>
        (callPc = "returned" /\ result = "Internal Server Error")

\* C2 as amended: a status-500 response whose elapsed time does not exceed the
\* timeout ends the call at that attempt: total_errors is incremented, the result
\* is 'Internal Server Error' and no further attempt is issued; when every answer
\* is such a 500, exactly one attempt is performed.
C2_ServerErrorEndsCall ==
    /\ [][(Attempted /\ last'.kind = "response" /\ last'.status_code = 500 /\ ~last'.late)
            => /\ callPc' = "returned"
               /\ result' = "Internal Server Error"
               /\ stats'.total_errors = stats.total_errors + 1
               /\ stats'.total_success = stats.total_success]_vars
    /\ []((log # <<>> /\ \A j \in 1..Len(log) : log[j].status_code = 500 /\ log[j].scenario = "error")
            => (gets = 1 /\ callPc = "returned"))

C2_Witness ==
    /\ callPc = "returned" /\ result = "Internal Server Error"
    /\ max_retries = 3 /\ gets = 1 /\ stats.total_errors = 1

\* C3: 503 on attempts 1..k-1 and a decodable 200 on attempt k gives the decoded
\* body after exactly k attempts, with total_calls = k, total_errors = k-1,
\* total_success = 1 and k response times.
C3_RetriedThenSuccess ==
    LET k == Len(log) IN
    (k >= 1 /\ AllBefore(k, Is503) /\ log[k].status_code = 200
       /\ last.kind = "response" /\ last.decodable)
    => /\ callPc = "returned"
       /\ result = "body"
       /\ gets = k
       /\ stats.total_calls = k
       /\ stats.total_errors = k - 1
       /\ stats.total_success = 1
       /\ Len(stats.response_times) = k

C3_Witness ==
    /\ Len(log) = 3 /\ log[1].status_code = 503 /\ log[2].status_code = 503
    /\ log[3].status_code = 200 /\ last.decodable
    /\ result = "body" /\ stats.total_errors = 2

\* C4: when every one of the max_retries attempts was classified
\* intermittent_error or slow, the call returns 'Max retries exceeded' with
\* total_calls = total_errors = max_retries and total_success = 0.
C4_RetriesExhausted ==
    (callPc = "returned" /\ Len(log) = max_retries
       /\ AllBefore(Len(log) + 1, IsRetried))
    => /\ result = "Max retries exceeded"
       /\ stats.total_calls = max_retries
       /\ stats.total_errors = max_retries
       /\ stats.total_success = 0

C4_Witness ==
    /\ callPc = "returned" /\ max_retries = 3 /\ Len(log) = 3
    /\ log[1].scenario = "intermittent_error" /\ log[2].scenario = "slow"
    /\ log[3].scenario = "intermittent_error"
    /\ result = "Max retries exceeded"

\* C5 as claimed: an attempt that receives a 200 whose body does not decode
\* increments total_errors and leaves total_success unchanged.
C5_DecodeFailureIsNoSuccess ==
    [][(Attempted /\ last'.kind = "response" /\ last'.status_code = 200 /\ ~last'.decodable)
         => /\ stats'.total_errors = stats.total_errors + 1
            /\ stats'.total_success = stats.total_success]_vars

\* C6 as claimed: a call with max_retries >= 1 that has returned has recorded at
\* least one attempt in total_calls and in response_times.
C6_ReturnedStatsRecordAnAttempt ==
    (callPc = "returned" /\ max_retries >= 1) =>
        (stats.total_calls >= 1 /\ stats.response_times # <<>>)

\* C8: the call always comes to return a (result, stats) pair; no exception
\* leaves make_resilient_call.
C8_AlwaysReturns == <>[](callPc = "returned" /\ result # "none")

C8_Witness ==
    /\ callPc = "returned" /\ result = "JSONDecodeError"
    /\ last.exc = "JSONDecodeError" /\ gets = 3

C10_LateAttemptIsAnError ==
    [][(Attempted /\ (last'.exc \in {"ConnectTimeout", "ReadTimeout"} \/ last'.late))
         => /\ stats'.total_errors = stats.total_errors + 1
            /\ stats'.total_success = stats.total_success
            /\ result' # "body"]_vars

----------------------------------------------------------------------------
(* Properties of main *)

\* C7 as claimed: the comparison ends in a division by zero only when
\* num_calls = 0.
C7_ZeroDivisionOnlyWithoutCalls ==
    mainPc = "ZeroDivisionError" => num_calls = 0

----------------------------------------------------------------------------
(* Properties of run_test *)

RunEnded == mainPc = "run_returned"

Column(h, F(_)) == [j \in 1..Len(h) |-> F(h[j])]

RECURSIVE Flatten(_)
Flatten(ss) == IF ss = <<>> THEN <<>> ELSE Head(ss) \o Flatten(Tail(ss))

CallsOf(st) == st.total_calls
ErrorsOf(st) == st.total_errors
SuccessOf(st) == st.total_success
TimeOf(st) == st.total_time
TimesOf(st) == st.response_times

\* C11: run_test makes exactly num_calls logical calls for num_calls >= 0; no call
\* leaves it by an exception, and while the run has not returned it can always go
\* on, whatever the result of the calls so far.
C11_ExactlyNumCalls ==
    /\ (RunEnded /\ num_calls >= 0) => (Len(call_history) = num_calls /\ i = num_calls)
    /\ Len(call_history) <= i
    /\ callPc # "raised"
    /\ mainPc \in TimeoutStrategy => ENABLED RunNext

C11_Witness ==
    /\ RunEnded /\ num_calls = 2 /\ Len(call_history) = 2
    /\ call_history[1].total_success = 0 /\ call_history[1].total_errors >= 1
    /\ call_history[2].total_success = 1

\* C12: the run-level stats are the fold of the per-call stats: the counters and
\* total_time are the sums of the per-call values and response_times is the
\* concatenation of the per-call response_times in call order; with num_calls = 0
\* the returned stats are all zero and empty.
C12_RunStatsAreTheFold ==
    /\ mainPc \in TimeoutStrategy \cup {"run_returned"} =>
        /\ all_stats.total_calls = SumSeq(Column(call_history, CallsOf))
        /\ all_stats.total_errors = SumSeq(Column(call_history, ErrorsOf))
        /\ all_stats.total_success = SumSeq(Column(call_history, SuccessOf))
        /\ all_stats.total_time = SumSeq(Column(call_history, TimeOf))
        /\ all_stats.response_times = Flatten(Column(call_history, TimesOf))
    /\ (RunEnded /\ num_calls = 0) =>
        /\ all_stats.total_calls = 0 /\ all_stats.total_errors = 0
        /\ all_stats.total_success = 0 /\ all_stats.total_time = 0
        /\ all_stats.response_times = <<>>

C12_Witness ==
    /\ RunEnded /\ num_calls = 2 /\ Len(call_history) = 2
    /\ Len(call_history[1].response_times) = 2
    /\ call_history[2].response_times # <<>>
    /\ call_history[1].response_times[1] # call_history[2].response_times[1]
    /\ all_stats.total_calls = 2 + call_history[2].total_calls

----------------------------------------------------------------------------
(* Properties of both entry points *)

DirectCall == mainPc = "none"

RunMode == mainPc \in TimeoutStrategy \cup {"run_returned"}

----------------------------------------------------------------------------
(* Properties of main, continued *)

\* C14: for two runs with total_calls >= 1 the total time difference is
\* antisymmetric: it is total_time(patient) - total_time(aggressive), the
\* negation of the difference taken the other way round, and computing it changes
\* neither run's statistics.
C14_TotalTimeDiffAntisymmetric ==
    /\ [](mainPc = "done" =>
            /\ aggressive_stats.total_calls >= 1 /\ patient_stats.total_calls >= 1
            /\ report.total_time_diff = patient_stats.total_time - aggressive_stats.total_time
            /\ report.total_time_diff
                 = 0 - KeyDifferences(aggressive_stats, patient_stats).total_time_diff)
    /\ [][mainPc = "report" =>
            (aggressive_stats' = aggressive_stats /\ patient_stats' = patient_stats)]_vars

C14_Witness ==
    /\ mainPc = "done" /\ report.total_time_diff < 0
    /\ aggressive_stats.total_calls >= 1 /\ patient_stats.total_calls >= 1

----------------------------------------------------------------------------
(* Properties of make_resilient_call, continued *)

ExceptionTexts == {"ConnectionError", "ConnectTimeout", "ReadTimeout", "JSONDecodeError"}

\* the last allowed attempt, attempt number max_retries, has been made
LastAllowedMade == max_retries >= 1 /\ Len(log) = max_retries

\* C15 as claimed: an attempt increments total_success, and the call returns the
\* body, only if the attempt's response has status 200.
C15_SuccessOnlyFor200 ==
    [][(Attempted /\ (stats'.total_success > stats.total_success \/ result' = "body"))
         => (last'.kind = "response" /\ last'.status_code = 200)]_vars

C17_TransportFailureRetriedOrReturned ==
    [][(Attempted /\ last'.exc # "none")
         => /\ stats'.total_errors = stats.total_errors + 1
            /\ IF attempt = max_retries - 1
               THEN callPc' = "returned" /\ result' = last'.exc
               ELSE callPc' = "loop" /\ result' = "none" /\ attempt' < max_retries]_vars

C17_Witness ==
    /\ callPc = "returned" /\ max_retries = 2 /\ Len(log) = 2
    /\ log[1].scenario = "none" /\ last.exc = "ConnectionError"
    /\ result = "ConnectionError" /\ stats.total_errors = 2

\* C20 as claimed: on return total_success is 0 or 1, and 1 exactly when the
\* result is the decoded body; no attempt follows one that incremented
\* total_success.
C20_ResultAgreesWithStats ==
    /\ callPc = "returned" =>
        /\ stats.total_success \in {0, 1}
        /\ stats.total_success = 1 <=> result = "body"
    /\ callPc = "loop" => stats.total_success = 0

----------------------------------------------------------------------------
(* Properties of CallStats in a call and in a run *)

Consistent(st) ==
    /\ st.total_calls = Len(st.response_times)
    /\ st.total_time = SumSeq(st.response_times)

IsPrefix(a, b) == Len(a) <= Len(b) /\ SubSeq(b, 1, Len(a)) = a

\* C18: the stats of a call and of a run always have total_calls equal to the
\* length of response_times and total_time equal to their sum, and response_times
\* only grows at its end.
C18_StatsConsistent ==
    /\ [](Consistent(stats) /\ Consistent(all_stats))
    /\ [][/\ callPc = "loop" => IsPrefix(stats.response_times, stats'.response_times)
          /\ IsPrefix(all_stats.response_times, all_stats'.response_times)]_vars

C18_Witness ==
    /\ mainPc \in TimeoutStrategy /\ callPc = "loop"
    /\ all_stats.total_calls = 3 /\ all_stats.total_time > 100
    /\ stats.total_calls = 2 /\ stats.total_time = 103

\* C19: every attempt of a run uses the timeout of the run's strategy (0.3 s
\* aggressive, 35 s patient); the per-call and run-level stats carry that strategy
\* from creation on, and the stats of the completed aggressive run are not changed
\* by the patient run.
C19_StrategyFixedForTheRun ==
    /\ [](mainPc \in TimeoutStrategy =>
            /\ all_stats.timeout_strategy = mainPc
            /\ callPc # "idle" => (stats.timeout_strategy = mainPc /\ timeout_strategy = mainPc)
            /\ (last.kind # "none" /\ mainPc = AGGRESSIVE) => last.timeout = AggressiveTimeout
            /\ (last.kind # "none" /\ mainPc = PATIENT) => last.timeout = PatientTimeout)
    /\ [](mainPc \in {PATIENT, "report", "done", "ZeroDivisionError"} =>
            aggressive_stats.timeout_strategy = AGGRESSIVE)
    /\ [](mainPc \in {"report", "done", "ZeroDivisionError"} =>
            patient_stats.timeout_strategy = PATIENT)
    /\ [][mainPc # AGGRESSIVE => aggressive_stats' = aggressive_stats]_vars
    /\ [][mainPc' = mainPc =>
            /\ all_stats'.timeout_strategy = all_stats.timeout_strategy
            /\ callPc = "loop" => stats'.timeout_strategy = stats.timeout_strategy]_vars

C19_Witness ==
    /\ mainPc = PATIENT /\ last.kind = "response" /\ last.elapsed = 101
    /\ aggressive_stats.total_calls >= 1 /\ aggressive_stats.timeout_strategy = AGGRESSIVE
    /\ stats.timeout_strategy = PATIENT

====
